---- MODULE Spec2Model ----
(***************************************************************************)
(* Model of docs/js/cube.js: a page script that locates or creates a       *)
(* container, builds a three.js renderer/scene/camera/cube, starts a       *)
(* hidden video, swaps the cube material to a video texture when playback  *)
(* starts, shows a click-to-play overlay, and runs a resize handler and a  *)
(* requestAnimationFrame loop.                                             *)
(*                                                                         *)
(* Every action is one run-to-completion task of the page's event loop:    *)
(* the script itself (Load), a promise reaction, a DOM event listener or   *)
(* an animation-frame callback.  The browser decides when and how the      *)
(* play promises settle, what the viewport is, what video.readyState is    *)
(* and which timestamps the frames get.                                    *)
(***************************************************************************)
EXTENDS Integers, Sequences, FiniteSets, TLC

\* ---- bounds of the model ----
MaxDim == 1        \* window dimensions range over 0..MaxDim
MaxTime == 1       \* timestamps range over 0..MaxTime
MaxPlays == 3      \* video.play() calls explored (the code makes at most 2)

\* ---- values ----
Undefined == 0                      \* `let videoTexture;` before assignment
Null == -1                          \* a material without a texture has map === null
HAVE_CURRENT_DATA == 2              \* the literal 2 in `video.readyState >= 2`
ReadyStates == 0..4                 \* HTMLMediaElement.readyState
Dims == 0..MaxDim                   \* window.innerWidth / innerHeight
ClientDims == {0, MaxDim}           \* container.clientWidth / clientHeight: not laid
                                    \* out (0, which makes || fall back) or laid out
Times == 0..MaxTime

VARIABLES
  loaded,            \* the script has run
  ev,                \* the DOM event or frame callback handled by the last step
                     \* ("click", "resize", "animate"), "none" for the script, a
                     \* promise reaction or a change of the media element
  pageHadContainer,  \* the page's HTML holds #three-container
  containersInDoc,   \* number of elements with id "three-container" in the document
  containersCreated, \* number of container divs the script created
  container,         \* the `container` binding: "null", "page" or "created"
  canvasParent,      \* where renderer.domElement is attached
  video,             \* the `video` binding: "none" or "element"
  clientWidth, clientHeight,   \* container.clientWidth / clientHeight
  innerWidth, innerHeight,     \* window.innerWidth / innerHeight
  rendererSize,      \* last renderer.setSize(w, h)
  cameraAspect,      \* camera.aspect, as a quotient <<num, den>>
  cubeMaterial,      \* cube.material
  videoTexture,      \* the `videoTexture` binding (Undefined or a texture id)
  materialSet,       \* the `materialSet` flag
  texturesCreated,   \* number of `new THREE.VideoTexture` evaluations
  materialAssigns,   \* number of `cube.material = mat` assignments
  readyState,        \* video.readyState
  overlayInDoc,      \* overlay button appended to document.body
  overlayDisplay,    \* overlay.style.display
  overlayListener,   \* the {once: true} click listener is still registered
  plays,             \* one promise state per video.play() call, in call order
  tryPlayRuns,       \* number of runs of tryPlay
  last,              \* the `last` timestamp
  rotation,          \* accumulated dt in ms (cube.rotation.x = 0.35 * rotation / 1000)
  rafPending,        \* animation-frame callbacks currently scheduled
  rendered,          \* the last run of animate reached renderer.render
  wroteNeedsUpdate,  \* the last run of animate wrote videoTexture.needsUpdate
  threw              \* the last run of animate threw a TypeError

domVars == <<pageHadContainer, containersInDoc, containersCreated, container, canvasParent, video>>
sizeVars == <<clientWidth, clientHeight, innerWidth, innerHeight, rendererSize, cameraAspect>>
textureVars == <<cubeMaterial, videoTexture, materialSet, texturesCreated, materialAssigns>>
overlayVars == <<overlayInDoc, overlayDisplay, overlayListener>>
playVars == <<plays, tryPlayRuns>>
frameVars == <<last, rotation, rafPending, rendered, wroteNeedsUpdate, threw>>
vars == <<loaded, ev, domVars, sizeVars, textureVars, readyState, overlayVars, playVars, frameVars>>

\* ---- pure helpers ----
RECURSIVE GCD(_, _)
GCD(a, b) == IF b = 0 THEN a ELSE GCD(b, a % b)

\* The JavaScript number w / h for non-negative integers, as a quotient in
\* lowest terms: <<1, 0>> is Infinity (w > 0, h = 0), <<0, 0>> is NaN (0 / 0).
JSDivSwapped(w, h) ==
  LET g == GCD(h, w) IN IF g = 0 THEN <<0, 0>> ELSE <<h \div g, w \div g>>

JSDiv(w, h) ==
  LET g == GCD(w, h) IN IF g = 0 THEN <<0, 0>> ELSE <<w \div g, h \div g>>

\* a || b on numbers: a unless it is 0 (falsy)
OrElse(a, b) == IF a # 0 THEN a ELSE b

placeholderMat == [kind |-> "placeholder", map |-> Null]
VideoMat(tex) == [kind |-> "video", map |-> tex]

\* ---- functions of the script, as actions on the state they touch ----

\* video.play(): a new pending promise
videoPlay == plays' = Append(plays, "pending")

hideOverlayNoop == overlayDisplay' = overlayDisplay

hideOverlay == overlayDisplay' = "none"

setupVideoTextureUnguarded ==
  /\ videoTexture' = texturesCreated + 1
  /\ texturesCreated' = texturesCreated + 1
  /\ cubeMaterial' = VideoMat(videoTexture')
  /\ materialAssigns' = materialAssigns + 1
  /\ materialSet' = TRUE

setupVideoTextureNoFlag ==
  IF materialSet
    THEN UNCHANGED textureVars
    ELSE /\ videoTexture' = texturesCreated + 1
         /\ texturesCreated' = texturesCreated + 1
         /\ cubeMaterial' = VideoMat(videoTexture')
         /\ materialAssigns' = materialAssigns + 1
         /\ materialSet' = materialSet

setupVideoTexture ==
  IF materialSet
    THEN UNCHANGED textureVars
    ELSE /\ videoTexture' = texturesCreated + 1
         /\ texturesCreated' = texturesCreated + 1
         /\ cubeMaterial' = VideoMat(videoTexture')
         /\ materialAssigns' = materialAssigns + 1
         /\ materialSet' = TRUE

tryPlay ==
  /\ videoPlay
  /\ tryPlayRuns' = tryPlayRuns + 1

\* onResize, reading the dimensions cw, ch, iw, ih
onResize(cw, ch, iw, ih) ==
  LET w == OrElse(cw, iw)
      h == OrElse(ch, ih)
  IN /\ rendererSize' = <<w, h>>
     /\ cameraAspect' = JSDiv(w, h)

\* the condition under which animate writes videoTexture.needsUpdate
AnimateWritesUnguarded == readyState >= HAVE_CURRENT_DATA

AnimateWrites == videoTexture # Undefined /\ readyState >= HAVE_CURRENT_DATA

\* ---- initial state: the page before the script runs ----
Init ==
  /\ loaded = FALSE
  /\ ev = "none"
  /\ pageHadContainer \in BOOLEAN
  /\ containersInDoc = IF pageHadContainer THEN 1 ELSE 0
  /\ containersCreated = 0
  /\ container = "null"
  /\ canvasParent = "none"
  /\ video = "none"
  /\ clientWidth \in ClientDims /\ clientHeight \in ClientDims
  /\ innerWidth \in Dims /\ innerHeight \in Dims
  /\ rendererSize = <<0, 0>>
  /\ cameraAspect = <<1, 1>>
  /\ cubeMaterial = placeholderMat
  /\ videoTexture = Undefined
  /\ materialSet = FALSE
  /\ texturesCreated = 0
  /\ materialAssigns = 0
  /\ readyState = 0
  /\ overlayInDoc = FALSE
  /\ overlayDisplay = ""
  /\ overlayListener = FALSE
  /\ plays = <<>>
  /\ tryPlayRuns = 0
  /\ last = 0
  /\ rotation = 0
  /\ rafPending = 0
  /\ rendered = FALSE
  /\ wroteNeedsUpdate = FALSE
  /\ threw = FALSE

\* ---- the script body (lines 5-171), one synchronous task ----
LocateOrCreateAlways ==
  /\ container' = "created"
  /\ containersCreated' = containersCreated + 1
  /\ containersInDoc' = containersInDoc + 1

LocateOrCreate ==
  IF containersInDoc > 0
    THEN /\ container' = "page"
         /\ UNCHANGED <<containersCreated, containersInDoc>>
    ELSE /\ container' = "created"
         /\ containersCreated' = containersCreated + 1
         /\ containersInDoc' = containersInDoc + 1

Load(now) ==
  /\ ~loaded
  /\ loaded' = TRUE
  /\ ev' = "none"
  /\ LocateOrCreate
  /\ canvasParent' = container'
  /\ cubeMaterial' = placeholderMat
  /\ video' = "element"
  /\ overlayListener' = TRUE
  /\ overlayInDoc' = TRUE
  /\ videoTexture' = Undefined
  /\ materialSet' = FALSE
  /\ videoPlay
  /\ onResize(clientWidth, clientHeight, innerWidth, innerHeight)
  /\ last' = now
  /\ rafPending' = rafPending + 1
  /\ UNCHANGED <<pageHadContainer, clientWidth, clientHeight, innerWidth, innerHeight,
                 texturesCreated, materialAssigns, readyState, overlayDisplay,
                 tryPlayRuns, rotation, rendered, wroteNeedsUpdate, threw>>

\* ---- reactions of the initial video.play() promise (lines 75-83) ----
AutoplayFulfilled ==
  /\ loaded
  /\ plays[1] = "pending"
  /\ plays' = [plays EXCEPT ![1] = "fulfilled"]
  /\ ev' = "none"
  /\ setupVideoTexture
  /\ hideOverlay
  /\ UNCHANGED <<loaded, domVars, sizeVars, readyState, overlayInDoc, overlayListener,
                 tryPlayRuns, frameVars>>

AutoplayRejectedSetsTexture ==
  /\ loaded
  /\ plays[1] = "pending"
  /\ plays' = [plays EXCEPT ![1] = "rejected"]
  /\ ev' = "none"
  /\ setupVideoTexture
  /\ UNCHANGED <<loaded, domVars, sizeVars, readyState, overlayVars,
                 tryPlayRuns, frameVars>>

AutoplayRejected ==
  /\ loaded
  /\ plays[1] = "pending"
  /\ plays' = [plays EXCEPT ![1] = "rejected"]
  /\ ev' = "none"
  /\ UNCHANGED <<loaded, domVars, sizeVars, textureVars, readyState, overlayVars,
                 tryPlayRuns, frameVars>>

\* ---- overlay click listener, registered with {once: true} (line 68) ----
\* A hidden button (display: none) receives no clicks.
ClickNotOnce ==
  /\ loaded
  /\ overlayInDoc
  /\ overlayDisplay # "none"
  /\ Len(plays) < MaxPlays
  /\ ev' = "click"
  /\ IF overlayListener
       THEN /\ overlayListener' = overlayListener
            /\ tryPlay
       ELSE UNCHANGED <<overlayListener, playVars>>
  /\ UNCHANGED <<loaded, domVars, sizeVars, textureVars, readyState, overlayInDoc,
                 overlayDisplay, frameVars>>

Click ==
  /\ loaded
  /\ overlayInDoc
  /\ overlayDisplay # "none"
  /\ Len(plays) < MaxPlays
  /\ ev' = "click"
  /\ IF overlayListener
       THEN /\ overlayListener' = FALSE
            /\ tryPlay
       ELSE UNCHANGED <<overlayListener, playVars>>
  /\ UNCHANGED <<loaded, domVars, sizeVars, textureVars, readyState, overlayInDoc,
                 overlayDisplay, frameVars>>

\* ---- reactions of the promise of a play() made by tryPlay (lines 86-93) ----
TryPlayFulfilled(i) ==
  /\ loaded
  /\ i \in 2..Len(plays)
  /\ plays[i] = "pending"
  /\ plays' = [plays EXCEPT ![i] = "fulfilled"]
  /\ ev' = "none"
  /\ setupVideoTexture
  /\ hideOverlay
  /\ UNCHANGED <<loaded, domVars, sizeVars, readyState, overlayInDoc, overlayListener,
                 tryPlayRuns, frameVars>>

TryPlayRejected(i) ==
  /\ loaded
  /\ i \in 2..Len(plays)
  /\ plays[i] = "pending"
  /\ plays' = [plays EXCEPT ![i] = "rejected"]
  /\ ev' = "none"
  /\ UNCHANGED <<loaded, domVars, sizeVars, textureVars, readyState, overlayVars,
                 tryPlayRuns, frameVars>>

\* ---- window "resize" listener (lines 122-129) ----
\* The browser has new dimensions in place when it dispatches the event.
Resize(cw, ch, iw, ih) ==
  /\ loaded
  /\ clientWidth' = cw /\ clientHeight' = ch
  /\ innerWidth' = iw /\ innerHeight' = ih
  /\ ev' = "resize"
  /\ onResize(cw, ch, iw, ih)
  /\ UNCHANGED <<loaded, domVars, textureVars, readyState, overlayVars, playVars, frameVars>>

\* ---- animation-frame callback (lines 134-150) ----
\* requestAnimationFrame(animate) is the first statement, so the next frame is
\* scheduled whatever happens later in the callback.  A write to a property of
\* an undefined videoTexture throws and skips renderer.render.
Animate(t) ==
  /\ loaded
  /\ rafPending > 0
  /\ t >= last
  /\ ev' = "animate"
  /\ rafPending' = (rafPending - 1) + 1
  /\ rotation' = rotation + (t - last)
  /\ last' = t
  /\ wroteNeedsUpdate' = (AnimateWrites /\ videoTexture # Undefined)
  /\ threw' = (AnimateWrites /\ videoTexture = Undefined)
  /\ rendered' = ~threw'
  /\ UNCHANGED <<loaded, domVars, sizeVars, textureVars, readyState, overlayVars, playVars>>

\* ---- the media element's readyState, driven by the browser ----
ReadyStateChange(r) ==
  /\ loaded
  /\ r # readyState
  /\ readyState' = r
  /\ ev' = "none"
  /\ UNCHANGED <<loaded, domVars, sizeVars, textureVars, overlayVars, playVars, frameVars>>

Next ==
  \/ \E now \in Times : Load(now)
  \/ AutoplayFulfilled
  \/ AutoplayRejected
  \/ Click
  \/ \E i \in 2..MaxPlays : TryPlayFulfilled(i)
  \/ \E i \in 2..MaxPlays : TryPlayRejected(i)
  \/ \E cw \in ClientDims, ch \in ClientDims, iw \in Dims, ih \in Dims : Resize(cw, ch, iw, ih)
  \/ \E t \in Times : Animate(t)
  \/ \E r \in ReadyStates : ReadyStateChange(r)

Spec == Init /\ [][Next]_vars

\* Fairness for the frame loop: the browser runs a scheduled animation-frame
\* callback.
FairSpec == Spec /\ WF_vars(\E t \in Times : Animate(t))

\* ---- state descriptions used by the properties ----
OverlayVisible == overlayInDoc /\ overlayDisplay # "none"
AutoplayHasRejected == Len(plays) >= 1 /\ plays[1] = "rejected"
NoPlaySucceeded == \A i \in 1..Len(plays) : plays[i] # "fulfilled"
SomePlaySucceeded == \E i \in 1..Len(plays) : plays[i] = "fulfilled"
\* the step is the reaction to a play promise that resolved / rejected
PlayResolves == \E i \in 1..Len(plays) : plays[i] = "pending" /\ plays'[i] = "fulfilled"
PlayRejects == \E i \in 1..Len(plays) : plays[i] = "pending" /\ plays'[i] = "rejected"
RetryRejects == \E i \in 2..Len(plays) : plays[i] = "pending" /\ plays'[i] = "rejected"
\* the step is the script body
ScriptRuns == ~loaded /\ loaded'

\* C1: the video-texture swap happens at most once over every interleaving of
\* the two play promises: at most one VideoTexture is created, cube.material
\* is assigned a video material at most once, and once materialSet is true no
\* step (in particular a second call of setupVideoTexture) changes the
\* texture, the material or the flag.
C1_SwapAtMostOnce ==
  /\ [](texturesCreated <= 1 /\ materialAssigns <= 1)
  /\ [][materialSet => UNCHANGED textureVars]_vars

\* C1 witness: both play promises have resolved and one texture exists.
C1_Witness ==
  /\ Len(plays) = 2
  /\ plays[1] = "fulfilled" /\ plays[2] = "fulfilled"
  /\ texturesCreated = 1 /\ materialAssigns = 1

\* C2 as stated: whenever the initial play promise has rejected and no play
\* attempt has succeeded, the overlay is displayed and a click on it starts a
\* new play attempt, whatever clicks happened before.
C2_ClickToPlayAfterRejection ==
  [][(loaded /\ AutoplayHasRejected /\ NoPlaySucceeded)
       => /\ OverlayVisible
          /\ (ev' = "click" => Len(plays') = Len(plays) + 1)]_vars

C4_ContainerExactlyOnce ==
  loaded =>
    /\ containersInDoc = 1
    /\ containersCreated = (IF pageHadContainer THEN 0 ELSE 1)
    /\ container = (IF pageHadContainer THEN "page" ELSE "created")
    /\ canvasParent = container

\* C4 witness: the page had no container, one was created, and callbacks of
\* every kind have run since (a retry, frames).
C4_Witness ==
  /\ loaded /\ ~pageHadContainer /\ containersCreated = 1
  /\ tryPlayRuns = 1 /\ rendered /\ ev = "resize"

\* C5 as stated: the animation frame callback, a rejected play promise and an
\* overlay click all leave the video reference, the material and texture, the
\* materialSet flag and the last-frame timestamp unchanged.
C5_Original ==
  [][(loaded /\ (ev' \in {"animate", "click"} \/ PlayRejects))
       => UNCHANGED <<video, cubeMaterial, videoTexture, materialSet, last>>]_vars

\* C5 amended: after load the video reference never changes; the material,
\* the texture and materialSet are changed only by a play-success callback;
\* last is changed only by the animation frame callback (which leaves the
\* other three alone); a rejected play promise, an overlay click and a resize
\* leave all four unchanged.
C5_Amended ==
  [][loaded =>
       /\ video' = video
       /\ (~PlayResolves
             => UNCHANGED <<cubeMaterial, videoTexture, materialSet>>)
       /\ (ev' # "animate" => last' = last)]_vars

\* C5 witness: a frame has moved last forward while the placeholder material
\* is still in place after a rejected autoplay.
C5_Witness ==
  /\ ev = "animate" /\ rotation > 0 /\ last > 0
  /\ AutoplayHasRejected /\ cubeMaterial = placeholderMat /\ ~materialSet

\* C6: playback is retried on click a single time: tryPlay runs at most once
\* and video.play() is called at most twice; the rejection of the retry
\* changes neither materialSet nor cube.material nor the overlay, which are
\* false, the placeholder and visible unless the initial promise has
\* resolved; and once tryPlay has run no later step starts another attempt.
C6_SingleRetry ==
  /\ [](tryPlayRuns <= 1 /\ Len(plays) <= 2)
  /\ []((Len(plays) = 2 /\ plays[2] = "rejected" /\ plays[1] # "fulfilled")
          => (~materialSet /\ cubeMaterial = placeholderMat /\ OverlayVisible))
  /\ [][loaded =>
          /\ (RetryRejects
                => UNCHANGED <<materialSet, cubeMaterial, overlayDisplay>>)
          /\ (tryPlayRuns >= 1
                => tryPlayRuns' = tryPlayRuns /\ Len(plays') = Len(plays))]_vars

\* C6 witness: the retry was rejected and the overlay, still visible, was
\* clicked again without starting a third play().
C6_Witness ==
  /\ Len(plays) = 2 /\ plays[2] = "rejected" /\ plays[1] = "rejected"
  /\ ev = "click" /\ tryPlayRuns = 1
  /\ ~materialSet /\ OverlayVisible

\* C7 as stated: whenever the overlay button is in the document and
\* displayed, the initial video.play() promise has already rejected.
C7_OverlayOnlyIfBlocked ==
  OverlayVisible => AutoplayHasRejected

\* C8: every animation frame writes videoTexture.needsUpdate only when the
\* texture exists and video.readyState >= 2, never throws on an undefined
\* texture, calls renderer.render and leaves exactly one next frame
\* scheduled; with the browser running scheduled frames, a frame callback
\* keeps running again and again whatever the play promises do.
C8_FrameLoopSafe ==
  /\ [](loaded => (rafPending = 1 /\ ~threw))
  /\ [][ev' = "animate" =>
          /\ rafPending' = 1
          /\ rendered' /\ ~threw'
          /\ (wroteNeedsUpdate' => (videoTexture # Undefined /\ readyState >= 2))]_vars
  /\ (loaded ~> (ev = "animate" /\ rendered))

\* C8 witness: a frame ran with video data available but no texture created
\* yet; it rendered and did not throw.
C8_Witness ==
  /\ ev = "animate" /\ videoTexture = Undefined /\ readyState >= 2
  /\ ~threw /\ ~wroteNeedsUpdate /\ rendered /\ rafPending = 1

\* C9: after the mesh is constructed cube.material is the placeholder exactly
\* when materialSet is false and videoTexture is undefined, and is a material
\* whose map is videoTexture exactly when materialSet is true; materialSet
\* never goes back to false nor the material back to the placeholder.
C9_MaterialAgreesWithFlag ==
  /\ [](loaded =>
          /\ (cubeMaterial = placeholderMat <=> (~materialSet /\ videoTexture = Undefined))
          /\ (cubeMaterial.map = videoTexture <=> materialSet)
          /\ (materialSet => cubeMaterial.kind = "video" /\ videoTexture # Undefined))
  /\ [][materialSet => (materialSet' /\ cubeMaterial' # placeholderMat)]_vars

\* C9 witness: the video material is in place and later callbacks have run.
C9_Witness ==
  /\ materialSet /\ cubeMaterial = VideoMat(videoTexture) /\ videoTexture = 1
  /\ ev = "animate" /\ wroteNeedsUpdate

\* C10: between callbacks the overlay is hidden exactly when materialSet is
\* true, which requires a resolved play promise; once hidden it stays hidden;
\* and the callback of a resolving play promise ends with the overlay hidden
\* and the video material applied.
C10_OverlayHiddenIffApplied ==
  /\ []((overlayDisplay = "none" <=> materialSet) /\ (materialSet => SomePlaySucceeded))
  /\ [][overlayDisplay = "none" => overlayDisplay' = "none"]_vars
  /\ [][(\E i \in 1..Len(plays) : plays[i] # "fulfilled" /\ plays'[i] = "fulfilled")
          => (overlayDisplay' = "none" /\ materialSet' /\ cubeMaterial'.kind = "video")]_vars

\* C10 witness: autoplay was rejected, the retry resolved, and its callback
\* hid the overlay and applied the video material.
C10_Witness ==
  /\ Len(plays) = 2 /\ plays[1] = "rejected" /\ plays[2] = "fulfilled"
  /\ overlayDisplay = "none" /\ materialSet /\ cubeMaterial.kind = "video"
====
